---- MODULE Spec2Model ----
(***************************************************************************)
(* Time Capsule: the capture-to-entry pipeline.                            *)
(*                                                                         *)
(*   utils/tokenization_utils.py   TokenizationUtils (the segmentation     *)
(*                                 engine and the entry store)             *)
(*   src/text/text_capture.py      TextCapture (keyboard / mouse source)   *)
(*   main.py                       handle_signal (shutdown)                *)
(*                                                                         *)
(* Strings are sequences of one-character strings.  Python's None is the   *)
(* empty sequence and an optional value is a sequence of length 0 or 1.    *)
(***************************************************************************)
EXTENDS Integers, Sequences, FiniteSets, TLC

VARIABLES
    tokenization_utils, \* the TokenizationUtils instance: current_entry and the uuid source
    files,              \* output_dir: file name -> the JSON document last written to it
    store_calls,        \* history: every entry handed to store_entry, in order
    calls,              \* history: every TextRecord handed to tokenize_and_store_text
    current_phrase,     \* TextCapture.current_phrase
    current_minute,     \* TextCapture.current_minute (None or <<minute>>)
    last_activity_time, \* TextCapture.last_activity_time
    last_click_time,    \* TextCapture.last_click_time
    now,                \* the wall clock: the index in Instants of the current time
    services,           \* the recorder names bound in main's globals()
    running,            \* the services whose loops / listeners have not been stopped
    signals,            \* number of signals delivered to the process
    main_pc,            \* the position of the main thread in main.py
    signal_handler,     \* the handler SIGINT and SIGTERM are bound to
    enabled,            \* the services the ENABLE_* settings switch on
    input_frames,       \* AudioRecorder.input_frames: the number of buffers read
    audio,              \* the samples handed to AudioRecorder._apply_vad
    vad_frames,         \* what _apply_vad returned for them (None before the call)
    stop_seq,           \* history: the newest snapshot queued when the first signal was handled
    active_window,      \* the title get_active_window() returns
    screenshot_queue,   \* ScreenRecorder.screenshot_queue
    recorder_thread,    \* ScreenRecorder._record: position and locals
    ocr_thread,         \* ScreenRecorder.process_screenshots: position and locals
    captures,           \* number of capture_screenshots calls begun
    ocr_log,            \* history: the snapshots submitted to the engine, in order
    last_batch,         \* history: the last batch processed and what became of it
    listeners,          \* the pynput listener threads: position and locals of each
    typed,              \* history: letters appended to the buffer and not removed by backspace
    last_event          \* history: the handler that ran last, its input and its saves

engine_vars == <<tokenization_utils, files, store_calls, calls>>

text_vars == <<current_phrase, current_minute, last_activity_time, last_click_time>>

main_vars == <<services, running, signals, main_pc, signal_handler, enabled, input_frames,
               stop_seq>>

screen_vars == <<active_window, screenshot_queue, recorder_thread, ocr_thread,
                 captures, ocr_log, last_batch>>

vad_vars == <<audio, vad_frames>>

listener_vars == <<listeners, typed>>

vars == <<engine_vars, text_vars, now, main_vars, screen_vars, vad_vars, listener_vars,
          last_event>>

(***************************************************************************)
(* Bounds of the model.                                                    *)
(***************************************************************************)
\* Number of tokenize_and_store_text calls explored on one engine.
MaxCalls == 3

\* self.token_limit, scaled down from 2000 so that the ceiling is reached.
token_limit == 3

\* Number of TextRecords the Text source emits.
MaxSaves == 2

\* Longest current_phrase typed before it is emitted.
MaxPhrase == 2

\* The instants (seconds of the epoch) at which the clock is read.  The first two
\* are 1 s apart (the click threshold) and in different minutes; the last two
\* are 5 s apart (the inactivity threshold) and in the same minute.
Instants == <<59, 60, 65>>

\* Number of signals delivered to the process.
MaxSignals == 2

(***************************************************************************)
(* Program constants.                                                      *)
(***************************************************************************)
\* self.inactivity_threshold, self.click_threshold (seconds)
inactivity_threshold == 5

click_threshold == 1

\* strftime("%Y-%m-%d_%H%M") changes every 60 seconds.
SecondsPerMinute == 60

(***************************************************************************)
(* Python string helpers.                                                  *)
(***************************************************************************)
None == <<>>

Whitespace == {" ", "\t", "\n"}

Letters == {"a"}

\* str.strip() leaves nothing: the string is empty or whitespace only.
IsBlank(s) == \A i \in 1..Len(s) : s[i] \in Whitespace

\* str.split(): the maximal runs of non-whitespace characters, in order.
RECURSIVE SplitFrom(_, _, _)
SplitFrom(s, i, word) ==
    IF i > Len(s)
    THEN IF word = <<>> THEN <<>> ELSE <<word>>
    ELSE IF s[i] \in Whitespace
         THEN IF word = <<>>
              THEN SplitFrom(s, i + 1, <<>>)
              ELSE <<word>> \o SplitFrom(s, i + 1, <<>>)
         ELSE SplitFrom(s, i + 1, Append(word, s[i]))

Split(s) == SplitFrom(s, 1, <<>>)

\* " ".join(words)
RECURSIVE Join(_)
Join(words) ==
    IF words = <<>> THEN <<>>
    ELSE IF Len(words) = 1 THEN words[1]
    ELSE words[1] \o <<" ">> \o Join(Tail(words))

(***************************************************************************)
(* TokenizationUtils.                                                      *)
(***************************************************************************)
\* nltk.word_tokenize on text made of letters and whitespace: its words.
word_tokenize(text) == Split(text)

\* Variant: the ceiling itself is not yet a reason to flush.
is_token_limit_exceeded(text) == Len(word_tokenize(text)) > token_limit

\* Variant: the ceiling is taken to be twice token_limit.
is_token_limit_doubled(text) == Len(word_tokenize(text)) >= 2 * token_limit

is_token_limit_reached(text) == Len(word_tokenize(text)) >= token_limit

preprocess_text(text) == Join(Split(text))

\* f"entry_{entry['timestamp']}.json"
entry_filename(entry) == <<"entry_", entry.timestamp, ".json">>

\* The document json.dump writes: the entry with its "tokens" key set.
entry_document(entry) ==
    [id        |-> entry.id,
     timestamp |-> entry.timestamp,
     source    |-> entry.source,
     text      |-> entry.text,
     metadata  |-> entry.metadata,
     tokens    |-> word_tokenize(entry.text)]

\* store_entry's effect on the output directory; a failed write is caught and
\* leaves the directory as it was.
store_entry_files(fs, entry, write_ok) ==
    IF write_ok
    THEN (entry_filename(entry) :> entry_document(entry)) @@ fs
    ELSE fs

\* store_entry's record in the history of store_entry calls.
store_entry_log(log, entry, write_ok) ==
    Append(log, [entry |-> entry, written |-> write_ok])

new_entry(id, clean_text, timestamp, source, metadata) ==
    [id        |-> id,
     timestamp |-> timestamp,
     source    |-> source,
     text      |-> clean_text,
     metadata  |-> metadata]

\* Variant: the record's text is appended without the separating space.
merged_entry_no_separator(tu, clean_text, timestamp, source, metadata, context_switch) ==
    IF tu.current_entry = None \/ context_switch
    THEN new_entry(tu.next_id, clean_text, timestamp, source, metadata)
    ELSE [tu.current_entry[1] EXCEPT !.text = @ \o clean_text]

\* Variant: the record's text is put in front of the entry's text.
merged_entry_prepends(tu, clean_text, timestamp, source, metadata, context_switch) ==
    IF tu.current_entry = None \/ context_switch
    THEN new_entry(tu.next_id, clean_text, timestamp, source, metadata)
    ELSE [tu.current_entry[1] EXCEPT !.text = clean_text \o <<" ">> \o @]

\* Variant: an append takes over the timestamp and metadata of the new record.
merged_entry_restamps(tu, clean_text, timestamp, source, metadata, context_switch) ==
    IF tu.current_entry = None \/ context_switch
    THEN new_entry(tu.next_id, clean_text, timestamp, source, metadata)
    ELSE [tu.current_entry[1] EXCEPT !.text = @ \o <<" ">> \o clean_text,
                                     !.timestamp = timestamp,
                                     !.metadata = metadata]

\* Lines 47-58: the entry that is current once the record has been merged in.
merged_entry(tu, clean_text, timestamp, source, metadata, context_switch) ==
    IF tu.current_entry = None \/ context_switch
    THEN new_entry(tu.next_id, clean_text, timestamp, source, metadata)
    ELSE [tu.current_entry[1] EXCEPT !.text = @ \o <<" ">> \o clean_text]

\* Line 48-49: the entry flushed because a new one replaces it, if any.
replaced_entry(tu, context_switch) ==
    IF tu.current_entry # None /\ context_switch THEN tu.current_entry ELSE None

\* Variant: the flushed entry stays referenced.
reference_kept_after_flush(entry) == <<entry>>

\* Line 66: the open-entry reference once the entry has been flushed at the ceiling.
reference_after_flush(entry) == None

\* The engine together with the directory it writes to and its history.
engine_state ==
    [tu          |-> tokenization_utils,
     files       |-> files,
     store_calls |-> store_calls,
     calls       |-> calls]

\* Variant: a failed write is attempted a second time.
store_entry_retries(e, entry, write_ok) ==
    IF write_ok
    THEN [e EXCEPT !.files       = store_entry_files(@, entry, TRUE),
                   !.store_calls = store_entry_log(@, entry, TRUE)]
    ELSE [e EXCEPT !.store_calls = store_entry_log(store_entry_log(@, entry, FALSE),
                                                   entry, FALSE)]

\* store_entry: the write (when it succeeds) and the record of the call.
store_entry(e, entry, write_ok) ==
    [e EXCEPT !.files       = store_entry_files(@, entry, write_ok),
              !.store_calls = store_entry_log(@, entry, write_ok)]

\* tokenize_and_store_text, from engine state to engine state.  write_ok is
\* whether the output directory accepts writes during this call.
tokenize_and_store_text(e, text, timestamp, source, metadata, context_switch, write_ok) ==
    LET tu       == e.tu
        clean    == preprocess_text(text)
        opened   == tu.current_entry = None \/ context_switch
        replaced == replaced_entry(tu, context_switch)
        entry    == merged_entry(tu, clean, timestamp, source, metadata, context_switch)
        reached  == is_token_limit_reached(entry.text)
        after    == IF reached THEN reference_after_flush(entry) ELSE <<entry>>
        e1       == IF replaced = None THEN e ELSE store_entry(e, replaced[1], write_ok)
        e2       == IF reached THEN store_entry(e1, entry, write_ok) ELSE e1
    IN  [e2 EXCEPT
            !.tu    = [current_entry |-> after,
                       next_id       |-> IF opened THEN tu.next_id + 1 ELSE tu.next_id],
            !.calls = Append(@,
                       [text           |-> text,
                        context_switch |-> context_switch,
                        had_entry      |-> tu.current_entry # None,
                        flushes        |-> Len(e2.store_calls) - Len(e.store_calls)])]

process_text_capture(e, text, timestamp, metadata, context_switch, write_ok) ==
    tokenize_and_store_text(e, text, timestamp, "Text Capture", metadata, context_switch, write_ok)

process_ocr_text(e, text, timestamp, metadata, write_ok) ==
    tokenize_and_store_text(e, text, timestamp, "OCR", metadata, FALSE, write_ok)

\* The engine variables take the values of an engine state.
SetEngine(e) ==
    /\ tokenization_utils' = e.tu
    /\ files' = e.files
    /\ store_calls' = e.store_calls
    /\ calls' = e.calls

(***************************************************************************)
(* TextCapture.                                                            *)
(***************************************************************************)
\* keyboard.KeyCode values carry a char; keyboard.Key members do not.
CharKeys == Letters

ModifierKeys == {"alt_l", "cmd", "ctrl_l", "ctrl_r"}

SpecialKeys == ModifierKeys \cup {"enter", "space", "backspace", "tab", "shift"}

Keys == CharKeys \cup SpecialKeys

\* Active window titles seen by the Text source; monitor indexes of the Screen source.
Windows == {"editor"}

Monitors == {1, 2}

\* The metadata snapshot the Text source attaches, reduced to the part that
\* varies while the process runs.
text_metadata(window) == [window |-> window]

\* The metadata the Screen source attaches.
ocr_metadata(timestamp, monitor) == [timestamp |-> timestamp, monitor |-> monitor]

\* datetime.now().isoformat(): the second, and a sub-second part that differs
\* from one save to the next.
iso_timestamp(clock, e) == <<clock, Len(e.calls)>>

\* datetime.now().strftime("%Y-%m-%d_%H%M")
minute_of(clock) == clock \div SecondsPerMinute

\* The TextCapture state a handler works on: the engine, the buffer, and the
\* context_switch arguments of the save_current_phrase calls it has made.
capture_state == [e |-> engine_state, phrase |-> current_phrase, saves |-> <<>>]

\* Variant: the buffer is submitted whatever it holds.
save_current_phrase_unguarded(t, context_switch, clock, window, write_ok) ==
    [e      |-> process_text_capture(t.e, t.phrase, iso_timestamp(clock, t.e),
                                     text_metadata(window), context_switch, write_ok),
     phrase |-> <<>>,
     saves  |-> Append(t.saves, context_switch)]

save_current_phrase(t, context_switch, clock, window, write_ok) ==
    IF ~IsBlank(t.phrase)
    THEN [e      |-> process_text_capture(t.e, t.phrase, iso_timestamp(clock, t.e),
                                          text_metadata(window), context_switch, write_ok),
          phrase |-> <<>>,
          saves  |-> Append(t.saves, context_switch)]
    ELSE [t EXCEPT !.saves = Append(@, context_switch)]

\* Variant: the minute rollover saves with context_switch set.
minute_check_context_switch(t, clock, window, write_ok) ==
    IF current_minute # None /\ current_minute[1] # minute_of(clock)
    THEN save_current_phrase(t, TRUE, clock, window, write_ok)
    ELSE t

\* Lines 64-68: a key press in another minute than the previous one saves first.
minute_check(t, clock, window, write_ok) ==
    IF current_minute # None /\ current_minute[1] # minute_of(clock)
    THEN save_current_phrase(t, FALSE, clock, window, write_ok)
    ELSE t

\* Variant: typed characters and whitespace go to the front of the buffer.
key_effect_prepends(t, key, clock, window, write_ok) ==
    IF key \in CharKeys THEN [t EXCEPT !.phrase = <<key>> \o @]
    ELSE IF key = "space" THEN [t EXCEPT !.phrase = <<" ">> \o @]
    ELSE IF key = "backspace"
         THEN [t EXCEPT !.phrase = IF @ = <<>> THEN <<>> ELSE SubSeq(@, 1, Len(@) - 1)]
    ELSE IF key = "tab" THEN [t EXCEPT !.phrase = <<"\t">> \o @]
    ELSE t

\* Variant: backspace empties the buffer.
key_effect_backspace_clears(t, key, clock, window, write_ok) ==
    IF key \in CharKeys THEN [t EXCEPT !.phrase = @ \o <<key>>]
    ELSE IF key = "space" THEN [t EXCEPT !.phrase = @ \o <<" ">>]
    ELSE IF key = "backspace" THEN [t EXCEPT !.phrase = <<>>]
    ELSE IF key = "tab" THEN [t EXCEPT !.phrase = @ \o <<"\t">>]
    ELSE t

\* Lines 70-87: key.char raises AttributeError for every keyboard.Key member, so
\* the try block runs to its end only for character keys.
key_effect(t, key, clock, window, write_ok) ==
    IF key \in CharKeys
    THEN LET t1 == [t EXCEPT !.phrase = @ \o <<key>>]
         IN  IF key \in ModifierKeys
             THEN save_current_phrase(t1, TRUE, clock, window, write_ok)
             ELSE IF key = "enter"
                  THEN save_current_phrase([t1 EXCEPT !.phrase = @ \o <<"\n">>],
                                           TRUE, clock, window, write_ok)
                  ELSE t1
    ELSE IF key = "space" THEN [t EXCEPT !.phrase = @ \o <<" ">>]
    ELSE IF key = "backspace"
         THEN [t EXCEPT !.phrase = IF @ = <<>> THEN <<>> ELSE SubSeq(@, 1, Len(@) - 1)]
    ELSE IF key = "tab" THEN [t EXCEPT !.phrase = @ \o <<"\t">>]
    ELSE t

\* Line 73: only the try block refreshes last_activity_time.
activity_after_key(key, clock) ==
    IF key \in CharKeys THEN clock ELSE last_activity_time

\* Lines 89-91.
inactivity_check(t, activity, clock, window, write_ok) ==
    IF clock - activity >= inactivity_threshold
    THEN save_current_phrase(t, TRUE, clock, window, write_ok)
    ELSE t

on_key_press(key, clock, window, write_ok) ==
    LET t1       == minute_check(capture_state, clock, window, write_ok)
        t2       == key_effect(t1, key, clock, window, write_ok)
        activity == activity_after_key(key, clock)
        t3       == inactivity_check(t2, activity, clock, window, write_ok)
    IN  /\ SetEngine(t3.e)
        /\ current_phrase' = t3.phrase
        /\ current_minute' = <<minute_of(clock)>>
        /\ last_activity_time' =
               IF clock - activity >= inactivity_threshold THEN clock ELSE activity
        /\ last_event' = [op |-> "on_key_press", key |-> key, saves |-> t3.saves]
        /\ UNCHANGED <<vad_vars, listener_vars, last_click_time, now, main_vars, screen_vars>>

\* Variant: a press exactly click_threshold after the recorded click is ignored.
click_accepted_strict(pressed, clock, last) ==
    pressed /\ clock - last > click_threshold

\* Lines 95-97: a press at least click_threshold after the recorded click.
click_accepted(pressed, clock, last) ==
    pressed /\ clock - last >= click_threshold

on_mouse_click(pressed, clock, window, write_ok) ==
    LET accepted == click_accepted(pressed, clock, last_click_time)
        t1       == IF accepted
                    THEN save_current_phrase(capture_state, TRUE, clock, window, write_ok)
                    ELSE capture_state
    IN  /\ SetEngine(t1.e)
        /\ current_phrase' = t1.phrase
        /\ last_click_time' = IF accepted THEN clock ELSE last_click_time
        /\ last_event' = [op   |-> "on_mouse_click",
                          key  |-> IF pressed THEN "press" ELSE "release",
                          saves |-> t1.saves]
        /\ UNCHANGED <<vad_vars, listener_vars, current_minute, last_activity_time, now, main_vars, screen_vars>>

\* stop_capture: both listeners stop.
stop_capture(r) == r \ {"text_capture"}

(***************************************************************************)
(* main.                                                                   *)
(***************************************************************************)
\* ScreenRecorder.stop_recording and AudioRecorder.stop_recording are called by
\* handle_signal; each clears its recorder's running flag.
ScreenRecorder_stop_recording(r) == r \ {"screen_recorder"}

AudioRecorder_stop_recording(r) == r \ {"audio_recorder"}

handle_signal(r) ==
    LET r1 == IF "screen_recorder" \in services THEN ScreenRecorder_stop_recording(r) ELSE r
        r2 == IF "audio_recorder" \in services THEN AudioRecorder_stop_recording(r1) ELSE r1
        r3 == IF "text_capture" \in services THEN stop_capture(r2) ELSE r2
    IN  r3

(***************************************************************************)
(* Initial state: the services are constructed and started, the signal     *)
(* handlers installed.                                                     *)
(***************************************************************************)
\* keyboard.Listener and mouse.Listener: each runs its callback on its own thread.
ListenerThreads == {"keyboard", "mouse"}

\* A listener thread waiting for the next event.
idle_listener ==
    [pc |-> "idle", key |-> "-", minute |-> 0, context_switch |-> FALSE, ret |-> "idle",
     timestamp |-> None, clean |-> <<>>, call |-> 0]

\* TokenizationUtils.__init__ and TextCapture.__init__, at the first instant.
InitCapture ==
    /\ tokenization_utils = [current_entry |-> None, next_id |-> 1]
    /\ files = <<>>
    /\ store_calls = <<>>
    /\ calls = <<>>
    /\ current_phrase = <<>>
    /\ current_minute = None
    /\ now = 1
    /\ last_activity_time = Instants[1]
    /\ last_click_time = 0
    /\ listeners = [th \in ListenerThreads |-> idle_listener]
    /\ typed = 0
    /\ last_event = [op |-> "init", key |-> "-", saves |-> <<>>]

\* No recording is being saved.
InitAudioOff ==
    /\ audio = <<>>
    /\ vad_frames = None

\* No ScreenRecorder thread has been started.
InitScreenOff ==
    /\ active_window = <<"editor">>
    /\ screenshot_queue = <<>>
    /\ recorder_thread = [pc |-> "off", monitor |-> 0, timestamp |-> 0, shot |-> None]
    /\ ocr_thread = [pc |-> "off", screenshots |-> <<>>]
    /\ captures = 0
    /\ ocr_log = <<>>
    /\ last_batch = [shots |-> <<>>, results |-> <<>>, emitted |-> 0]

\* main has run to its loop with only ENABLE_TEXT_RECORDING set.
Init ==
    /\ InitCapture
    /\ InitScreenOff
    /\ InitAudioOff
    /\ enabled = {"text_capture"}
    /\ services = {"text_capture"}
    /\ running = {"text_capture"}
    /\ signals = 0
    /\ main_pc = "loop"
    /\ signal_handler = "main"
    /\ input_frames = 0
    /\ stop_seq = 0

(***************************************************************************)
(* Actions of the Text pipeline.                                           *)
(***************************************************************************)
\* The keyboard listener delivers a key press.
OnKeyPress ==
    /\ "text_capture" \in running
    /\ Len(calls) < MaxSaves
    /\ \E key \in Keys, window \in Windows, write_ok \in BOOLEAN :
          /\ key \in CharKeys \cup {"space", "tab"} => Len(current_phrase) < MaxPhrase
          /\ on_key_press(key, Instants[now], window, write_ok)

\* The mouse listener delivers a button press or release.
OnMouseClick ==
    /\ "text_capture" \in running
    /\ Len(calls) < MaxSaves
    /\ \E pressed \in BOOLEAN, window \in Windows, write_ok \in BOOLEAN :
          on_mouse_click(pressed, Instants[now], window, write_ok)

\* Time passes, up to the next instant.
Tick ==
    /\ now < Len(Instants)
    /\ now' = now + 1
    /\ last_event' = [op |-> "tick", key |-> "-", saves |-> <<>>]
    /\ UNCHANGED <<vad_vars, listener_vars, engine_vars, text_vars, main_vars, screen_vars>>

\* SIGINT or SIGTERM is delivered and handle_signal runs to its end.
HandleSignal ==
    /\ signals < MaxSignals
    /\ signal_handler = "main"
    /\ running' = handle_signal(running)
    /\ signals' = signals + 1
    /\ stop_seq' = IF signals = 0 /\ screenshot_queue # <<>>
                   THEN screenshot_queue[Len(screenshot_queue)].seq
                   ELSE stop_seq
    /\ last_event' = [op |-> "handle_signal", key |-> "-", saves |-> <<>>]
    /\ UNCHANGED <<vad_vars, listener_vars, engine_vars, text_vars, now, services, main_pc, signal_handler,
                   enabled, input_frames, screen_vars>>

Next == OnKeyPress \/ OnMouseClick \/ Tick \/ HandleSignal

Spec == Init /\ [][Next]_vars

\* The clock keeps running whatever the user does.
FairSpec == Spec /\ WF_vars(Tick)

(***************************************************************************)
(* The two listener threads of TextCapture, statement by statement.  The   *)
(* callbacks on_key_press and on_mouse_click run on the thread of their     *)
(* listener; nothing in TextCapture or TokenizationUtils holds a lock.     *)
(* A step below is a run of statements of one thread; the other thread may *)
(* run between two steps.                                                   *)
(***************************************************************************)
\* The keys the keyboard thread is given: a letter, two editing keys and a
\* key without effect on the buffer.
ListenerKeys == {"a", "space", "backspace", "shift"}

\* No event is delivered once this many submissions have begun.
MaxListenerCalls == 1

\* The output directory accepts every write while the listeners run.
ListenerWrites == {TRUE}

\* The number of letters in a string.
RECURSIVE letters_in(_)
letters_in(text) ==
    IF text = <<>> THEN 0
    ELSE (IF text[1] \in Letters THEN 1 ELSE 0) + letters_in(Tail(text))

\* The thread th moves on to the local state l.
SetListener(th, l) == listeners' = [listeners EXCEPT ![th] = l]

\* Line 59-61: the keyboard listener calls on_key_press; current_minute is read.
KeyPressBegin ==
    /\ "text_capture" \in running
    /\ listeners["keyboard"].pc = "idle"
    /\ Len(calls) < MaxListenerCalls
    /\ \E key \in ListenerKeys :
          /\ key \in CharKeys \cup {"space", "tab"} => Len(current_phrase) < MaxPhrase
          /\ SetListener("keyboard", [idle_listener EXCEPT !.pc = "minute",
                                                           !.key = key,
                                                           !.minute = minute_of(Instants[now])])
    /\ UNCHANGED <<engine_vars, text_vars, now, main_vars, screen_vars, vad_vars, typed,
                   last_event>>

\* Lines 64-67: the minute check, up to the call of save_current_phrase().
KeyMinuteCheck ==
    LET l == listeners["keyboard"]
    IN  /\ l.pc = "minute"
        /\ current_minute' = IF current_minute = None THEN <<l.minute>> ELSE current_minute
        /\ SetListener("keyboard",
               IF current_minute # None /\ current_minute # <<l.minute>>
               THEN [l EXCEPT !.pc = "save", !.context_switch = FALSE, !.ret = "set_minute"]
               ELSE [l EXCEPT !.pc = "key"])
        /\ UNCHANGED <<engine_vars, current_phrase, last_activity_time, last_click_time, now,
                       main_vars, screen_vars, vad_vars, typed, last_event>>

\* Line 68: self.current_minute = current_minute.
KeySetMinute ==
    LET l == listeners["keyboard"]
    IN  /\ l.pc = "set_minute"
        /\ current_minute' = <<l.minute>>
        /\ SetListener("keyboard", [l EXCEPT !.pc = "key", !.ret = "idle"])
        /\ UNCHANGED <<engine_vars, current_phrase, last_activity_time, last_click_time, now,
                       main_vars, screen_vars, vad_vars, typed, last_event>>

\* Lines 70-87: the key changes the buffer.  None of ListenerKeys reaches a
\* save_current_phrase call of the try block.
KeyEffect ==
    LET l  == listeners["keyboard"]
        t1 == key_effect(capture_state, l.key, Instants[now], "editor", TRUE)
    IN  /\ l.pc = "key"
        /\ current_phrase' = t1.phrase
        /\ last_activity_time' = activity_after_key(l.key, Instants[now])
        /\ typed' = typed + letters_in(t1.phrase) - letters_in(current_phrase)
        /\ SetListener("keyboard", [l EXCEPT !.pc = "inactivity"])
        /\ UNCHANGED <<engine_vars, current_minute, last_click_time, now, main_vars,
                       screen_vars, vad_vars, last_event>>

\* Lines 89-90: the inactivity check, up to the call of save_current_phrase.
KeyInactivityCheck ==
    LET l == listeners["keyboard"]
    IN  /\ l.pc = "inactivity"
        /\ SetListener("keyboard",
               IF Instants[now] - last_activity_time >= inactivity_threshold
               THEN [l EXCEPT !.pc = "save", !.context_switch = TRUE, !.ret = "set_activity"]
               ELSE idle_listener)
        /\ UNCHANGED <<engine_vars, text_vars, now, main_vars, screen_vars, vad_vars, typed,
                       last_event>>

\* Line 91: self.last_activity_time = time.time().
KeySetActivity ==
    /\ listeners["keyboard"].pc = "set_activity"
    /\ last_activity_time' = Instants[now]
    /\ SetListener("keyboard", idle_listener)
    /\ UNCHANGED <<engine_vars, current_phrase, current_minute, last_click_time, now,
                   main_vars, screen_vars, vad_vars, typed, last_event>>

\* Lines 93-98: the mouse listener calls on_mouse_click, up to the call of
\* save_current_phrase.  The time of the click is kept in minute.
MouseClickBegin ==
    /\ "text_capture" \in running
    /\ listeners["mouse"].pc = "idle"
    /\ Len(calls) < MaxListenerCalls
    /\ \E pressed \in BOOLEAN :
          SetListener("mouse",
              IF click_accepted(pressed, Instants[now], last_click_time)
              THEN [idle_listener EXCEPT !.pc = "save", !.context_switch = TRUE,
                                         !.ret = "set_click", !.minute = Instants[now]]
              ELSE idle_listener)
    /\ UNCHANGED <<engine_vars, text_vars, now, main_vars, screen_vars, vad_vars, typed,
                   last_event>>

\* Line 99: self.last_click_time = current_time.
MouseSetClick ==
    LET l == listeners["mouse"]
    IN  /\ l.pc = "set_click"
        /\ last_click_time' = l.minute
        /\ SetListener("mouse", idle_listener)
        /\ UNCHANGED <<engine_vars, current_phrase, current_minute, last_activity_time, now,
                       main_vars, screen_vars, vad_vars, typed, last_event>>

\* Lines 103-120 of save_current_phrase: the blank check, the timestamp and
\* the metadata.
SaveBegin ==
    \E th \in ListenerThreads :
        LET l == listeners[th]
        IN  /\ l.pc = "save"
            /\ SetListener(th,
                   IF ~IsBlank(current_phrase)
                   THEN [l EXCEPT !.pc = "submit",
                                  !.timestamp = <<iso_timestamp(Instants[now], engine_state)>>]
                   ELSE [l EXCEPT !.pc = l.ret])
            /\ UNCHANGED <<engine_vars, text_vars, now, main_vars, screen_vars, vad_vars,
                           typed, last_event>>

\* Line 123, and lines 44-49 or 58 of tokenize_and_store_text: the buffer is
\* read and passed in; the entry being replaced is flushed, or the text is
\* appended to the open entry.
SaveSubmit ==
    \E th \in ListenerThreads, write_ok \in ListenerWrites :
        LET l        == listeners[th]
            tu       == tokenization_utils
            clean    == preprocess_text(current_phrase)
            opened   == tu.current_entry = None \/ l.context_switch
            replaced == replaced_entry(tu, l.context_switch)
            e1       == IF replaced = None THEN engine_state
                        ELSE store_entry(engine_state, replaced[1], write_ok)
        IN  /\ l.pc = "submit"
            /\ replaced = None => write_ok
            /\ files' = e1.files
            /\ store_calls' = e1.store_calls
            /\ calls' = Append(calls, [text           |-> current_phrase,
                                       context_switch |-> l.context_switch,
                                       had_entry      |-> tu.current_entry # None,
                                       flushes        |-> Len(e1.store_calls) - Len(store_calls)])
            /\ tokenization_utils' =
                   IF opened THEN tu
                   ELSE [tu EXCEPT !.current_entry =
                            <<merged_entry(tu, clean, l.timestamp[1], "Text Capture",
                                           text_metadata("editor"), FALSE)>>]
            /\ SetListener(th, [l EXCEPT !.pc = IF opened THEN "engine_new" ELSE "engine_limit",
                                         !.clean = clean,
                                         !.call = Len(calls) + 1])
            /\ UNCHANGED <<text_vars, now, main_vars, screen_vars, vad_vars, typed, last_event>>

\* Lines 50-56 of tokenize_and_store_text: self.current_entry = {...}.
EngineNew ==
    \E th \in ListenerThreads :
        LET l  == listeners[th]
            tu == tokenization_utils
        IN  /\ l.pc = "engine_new"
            /\ tokenization_utils' =
                   [current_entry |-> <<new_entry(tu.next_id, l.clean, l.timestamp[1],
                                                  "Text Capture", text_metadata("editor"))>>,
                    next_id       |-> tu.next_id + 1]
            /\ SetListener(th, [l EXCEPT !.pc = "engine_limit"])
            /\ UNCHANGED <<files, store_calls, calls, text_vars, now, main_vars, screen_vars,
                           vad_vars, typed, last_event>>

\* Lines 60-66 of tokenize_and_store_text.  self.current_entry['text'] raises
\* TypeError when the other thread has set current_entry to None; the
\* exception is caught at line 126 and save_current_phrase returns.
EngineLimit ==
    \E th \in ListenerThreads, write_ok \in ListenerWrites :
        LET l       == listeners[th]
            tu      == tokenization_utils
            raised  == tu.current_entry = None
            reached == ~raised /\ is_token_limit_reached(tu.current_entry[1].text)
            e1      == IF reached THEN store_entry(engine_state, tu.current_entry[1], write_ok)
                       ELSE engine_state
        IN  /\ l.pc = "engine_limit"
            /\ ~reached => write_ok
            /\ files' = e1.files
            /\ store_calls' = e1.store_calls
            /\ calls' = IF reached THEN [calls EXCEPT ![l.call].flushes = @ + 1] ELSE calls
            /\ tokenization_utils' =
                   IF reached
                   THEN [tu EXCEPT !.current_entry = reference_after_flush(tu.current_entry[1])]
                   ELSE tu
            /\ SetListener(th, [l EXCEPT !.pc = IF raised THEN l.ret ELSE "clear"])
            /\ UNCHANGED <<text_vars, now, main_vars, screen_vars, vad_vars, typed, last_event>>

\* Line 124 of save_current_phrase: self.current_phrase = "".
SaveClear ==
    \E th \in ListenerThreads :
        LET l == listeners[th]
        IN  /\ l.pc = "clear"
            /\ current_phrase' = <<>>
            /\ SetListener(th, [l EXCEPT !.pc = l.ret])
            /\ UNCHANGED <<engine_vars, current_minute, last_activity_time, last_click_time,
                           now, main_vars, screen_vars, vad_vars, typed, last_event>>

NextListeners ==
    \/ KeyPressBegin \/ KeyMinuteCheck \/ KeySetMinute \/ KeyEffect
    \/ KeyInactivityCheck \/ KeySetActivity
    \/ MouseClickBegin \/ MouseSetClick
    \/ SaveBegin \/ SaveSubmit \/ EngineNew \/ EngineLimit \/ SaveClear
    \/ Tick

SpecListeners == Init /\ [][NextListeners]_vars

(***************************************************************************)
(* main.py from its first line: the services are started one after the     *)
(* other, then the signal handlers are installed.                          *)
(***************************************************************************)
\* Number of buffers the audio thread reads.
MaxFrames == 2

AllServices == {"audio_recorder", "screen_recorder", "text_capture"}

\* AudioRecorder.start_recording, lines 63-68: the flag is set and the thread
\* started; the caller then waits in input_thread.join() (line 70).
AudioRecorder_start_recording(r) == r \cup {"audio_recorder"}

\* ScreenRecorder.start_recording, lines 56-61.
ScreenRecorder_start_recording(r) == r \cup {"screen_recorder"}

\* TextCapture.start_capture, lines 50-53.
start_capture(r) == r \cup {"text_capture"}

\* input_thread.join() returns when _record_input has left its loop, which it
\* does when self.recording is false.
audio_thread_finished(r) == "audio_recorder" \notin r

\* The main thread after AudioRecorder.start_recording has started the thread.
pc_after_audio_start == "audio_join"

\* One step of the main thread on its way to the loop of lines 116-118.
MainStep ==
    /\ main_pc \in {"audio", "audio_join", "screen", "text", "install"}
    /\ main_pc = "audio_join" => audio_thread_finished(running)
    /\ main_pc' = CASE main_pc = "audio" ->
                           IF "audio_recorder" \in enabled
                           THEN pc_after_audio_start ELSE "screen"
                    [] main_pc = "audio_join" -> "screen"
                    [] main_pc = "screen" -> "text"
                    [] main_pc = "text" -> "install"
                    [] main_pc = "install" -> "loop"
    /\ services' = IF main_pc = "audio" /\ "audio_recorder" \in enabled
                   THEN services \cup {"audio_recorder"}
                   ELSE IF main_pc = "screen" /\ "screen_recorder" \in enabled
                   THEN services \cup {"screen_recorder"}
                   ELSE IF main_pc = "text" /\ "text_capture" \in enabled
                   THEN services \cup {"text_capture"}
                   ELSE services
    /\ running' = IF main_pc = "audio" /\ "audio_recorder" \in enabled
                  THEN AudioRecorder_start_recording(running)
                  ELSE IF main_pc = "screen" /\ "screen_recorder" \in enabled
                  THEN ScreenRecorder_start_recording(running)
                  ELSE IF main_pc = "text" /\ "text_capture" \in enabled
                  THEN start_capture(running)
                  ELSE running
    /\ signal_handler' = IF main_pc = "screen" /\ "screen_recorder" \in enabled
                         THEN "screen"
                         ELSE IF main_pc = "install" THEN "main"
                         ELSE signal_handler
    /\ UNCHANGED <<vad_vars, listener_vars, engine_vars, text_vars, now, signals, enabled, input_frames, stop_seq,
                   screen_vars, last_event>>

\* AudioRecorder._record_input, lines 86-88: one buffer is read.
RecordInput ==
    /\ "audio_recorder" \in running
    /\ input_frames < MaxFrames
    /\ input_frames' = input_frames + 1
    /\ UNCHANGED <<vad_vars, listener_vars, engine_vars, text_vars, now, services, running, signals, main_pc,
                   signal_handler, enabled, stop_seq, screen_vars, last_event>>

\* A signal arrives while Python's own handlers are still in place: SIGINT
\* raises KeyboardInterrupt in the main thread, outside the try of line 116,
\* and ends that thread only; SIGTERM ends the process.
DefaultSignal ==
    /\ signals < MaxSignals
    /\ signal_handler = "default"
    /\ main_pc \in {"audio", "audio_join", "screen"}
    /\ \E signum \in {"SIGINT", "SIGTERM"} :
          /\ main_pc' = IF signum = "SIGINT" THEN "dead" ELSE "killed"
          /\ running' = IF signum = "SIGINT" THEN running ELSE {}
          /\ last_event' = [op |-> "default_handler", key |-> signum, saves |-> <<>>]
    /\ signals' = signals + 1
    /\ UNCHANGED <<vad_vars, listener_vars, engine_vars, text_vars, now, services, signal_handler, enabled,
                   input_frames, stop_seq, screen_vars>>

\* ScreenRecorder.handle_signal, bound by ScreenRecorder.__init__ (lines 49-50)
\* until main binds its own handler.
ScreenRecorder_handle_signal ==
    /\ signals < MaxSignals
    /\ signal_handler = "screen"
    /\ main_pc \in {"text", "install"}
    /\ running' = ScreenRecorder_stop_recording(running)
    /\ signals' = signals + 1
    /\ last_event' = [op |-> "ScreenRecorder.handle_signal", key |-> "-", saves |-> <<>>]
    /\ UNCHANGED <<vad_vars, listener_vars, engine_vars, text_vars, now, services, main_pc, signal_handler,
                   enabled, input_frames, stop_seq, screen_vars>>

\* The process is started with any combination of the ENABLE_* settings.
InitMain ==
    /\ InitCapture
    /\ InitScreenOff
    /\ InitAudioOff
    /\ enabled \in SUBSET AllServices
    /\ services = {}
    /\ running = {}
    /\ signals = 0
    /\ main_pc = "audio"
    /\ signal_handler = "default"
    /\ input_frames = 0
    /\ stop_seq = 0

NextMain ==
    \/ MainStep \/ RecordInput \/ Tick
    \/ DefaultSignal \/ ScreenRecorder_handle_signal \/ HandleSignal

SpecMain == InitMain /\ [][NextMain]_vars

\* Every thread that can run does run.
FairSpecMain == SpecMain /\ WF_vars(MainStep) /\ WF_vars(RecordInput)

(***************************************************************************)
(* AudioRecorder._apply_vad, applied to a recording.                       *)
(***************************************************************************)
\* self.frames_per_buffer, scaled down from 1024.
frames_per_buffer == 2

\* int(self.silence_duration * self.sample_rate / self.frames_per_buffer),
\* scaled down from 15.
silence_frames == 1

\* Longest recording explored.
MaxSamples == 4

\* self.threshold = 0.1, as a fraction.
threshold_num == 1

threshold_den == 10

\* int16 samples: silence, a faint sample, a loud one.
Samples == {0, 1, 0 - 10}

\* np.abs
abs(x) == IF x < 0 THEN 0 - x ELSE x

\* np.max(audio_abs)
RECURSIVE audio_max(_)
audio_max(samples) ==
    IF Len(samples) = 1 THEN abs(samples[1])
    ELSE LET rest == audio_max(Tail(samples))
         IN  IF abs(samples[1]) > rest THEN abs(samples[1]) ELSE rest

\* Line 123: audio_norm[i] > threshold, with audio_norm = audio_abs / audio_max.
\* With audio_max = 0 the quotient is nan and the comparison is false.
above_threshold(sample, peak) ==
    abs(sample) * threshold_den > threshold_num * peak

\* audio[start : start + frames_per_buffer], with Python's 0-based bounds.
audio_slice(samples, start) ==
    SubSeq(samples, start + 1,
           IF start + frames_per_buffer < Len(samples)
           THEN start + frames_per_buffer ELSE Len(samples))

\* Lines 122-129: the loop from sample i on.
RECURSIVE vad_loop(_, _, _, _, _)
vad_loop(samples, peak, i, vad, silent_count) ==
    IF i > Len(samples) THEN vad
    ELSE IF above_threshold(samples[i], peak)
         THEN vad_loop(samples, peak, i + 1, vad \o audio_slice(samples, Len(vad)), 0)
         ELSE IF silent_count + 1 <= silence_frames
              THEN vad_loop(samples, peak, i + 1,
                            vad \o audio_slice(samples, Len(vad)), silent_count + 1)
              ELSE vad_loop(samples, peak, i + 1, vad, silent_count + 1)

apply_vad(samples) == vad_loop(samples, audio_max(samples), 1, <<>>, 0)

\* The recordings: every non-empty sequence of at most MaxSamples samples.
Recordings == UNION {[1..n -> Samples] : n \in 1..MaxSamples}

\* _save_recordings, lines 96-99: the recording is handed to _apply_vad.
ApplyVad ==
    /\ vad_frames = None
    /\ audio # <<>>
    /\ vad_frames' = <<apply_vad(audio)>>
    /\ UNCHANGED <<engine_vars, text_vars, now, main_vars, screen_vars, audio, listener_vars,
                   last_event>>

InitVad ==
    /\ InitCapture
    /\ InitScreenOff
    /\ audio \in Recordings
    /\ vad_frames = None
    /\ enabled = {"audio_recorder"}
    /\ services = {"audio_recorder"}
    /\ running = {}
    /\ signals = 0
    /\ main_pc = "audio_join"
    /\ signal_handler = "default"
    /\ input_frames = 0
    /\ stop_seq = 0

NextVad == ApplyVad

SpecVad == InitVad /\ [][NextVad]_vars

(***************************************************************************)
(* The engine on its own: a caller hands it arbitrary records.             *)
(***************************************************************************)
\* Record texts: blank; one token with trailing whitespace; three tokens (the
\* ceiling) separated by a space and a tab.
Texts == {<<" ">>, <<"a", " ">>, <<"b", " ", "a", "\t", "b">>}

Timestamps == {1, 2}

SubmitTextCapture ==
    /\ Len(calls) < MaxCalls
    /\ \E text \in Texts, timestamp \in Timestamps, window \in Windows,
          context_switch \in BOOLEAN, write_ok \in BOOLEAN :
          SetEngine(process_text_capture(engine_state, text, timestamp,
                                         text_metadata(window), context_switch, write_ok))
    /\ last_event' = [op |-> "process_text_capture", key |-> "-", saves |-> <<>>]
    /\ UNCHANGED <<vad_vars, listener_vars, text_vars, now, main_vars, screen_vars>>

SubmitOcrText ==
    /\ Len(calls) < MaxCalls
    /\ \E text \in Texts, timestamp \in Timestamps, monitor \in Monitors,
          write_ok \in BOOLEAN :
          SetEngine(process_ocr_text(engine_state, text, timestamp,
                                     ocr_metadata(timestamp, monitor), write_ok))
    /\ last_event' = [op |-> "process_ocr_text", key |-> "-", saves |-> <<>>]
    /\ UNCHANGED <<vad_vars, listener_vars, text_vars, now, main_vars, screen_vars>>

NextEngine == SubmitTextCapture \/ SubmitOcrText

SpecEngine == Init /\ [][NextEngine]_vars

\* The same, with signals arriving between the submissions.
NextEngineSignals == SubmitTextCapture \/ SubmitOcrText \/ HandleSignal

SpecEngineSignals == Init /\ [][NextEngineSignals]_vars

(***************************************************************************)
(* ScreenRecorder.                                                         *)
(***************************************************************************)
\* self.batch_size, scaled down from 10.
batch_size == 2

\* Number of capture_screenshots rounds explored.
MaxCaptures == 2

\* Window titles, as sequences of their parts.
ActiveWindows == {<<"editor">>, <<"vault">>, <<"browser", "Private Browsing">>}

\* get_excluded_apps()
excluded_apps == {<<"vault">>}

private_keywords == {"Private Browsing", "Incognito", "InPrivate"}

\* any(keyword in window_title for keyword in private_keywords)
is_private_browser_window(window_title) ==
    \E i \in 1..Len(window_title) : window_title[i] \in private_keywords

\* sct.monitors[1:], enumerated from 1.
monitors == [i \in 1..Cardinality(Monitors) |-> i]

\* The position of a snapshot in the order of capture.
capture_index(round, monitor) == (round - 1) * Len(monitors) + monitor

\* Line 89: the snapshot is skipped.
is_excluded(current_window) ==
    current_window \in excluded_apps \/ is_private_browser_window(current_window)

\* Variant: Queue.get hands out the newest snapshot.
queue_get_newest(queue) ==
    [item |-> queue[Len(queue)], rest |-> SubSeq(queue, 1, Len(queue) - 1)]

\* Queue.get on a non-empty queue: the oldest snapshot.
queue_get(queue) == [item |-> Head(queue), rest |-> Tail(queue)]

\* What pytesseract reads in an image: the words of text['text'].  The first
\* reading cleans to two words, the second to the empty string.
OcrWords == {<< <<"A">>, <<" ">>, <<"b", "!">> >>, << <<"!">> >>}

\* What becomes of a snapshot when it is preprocessed and recognised.
OcrOutcomes ==
    [kind : {"ok"}, words : OcrWords]
        \cup [kind : {"preprocess_error", "ocr_error"}, words : {<<>>}]

RECURSIVE NonBlankWords(_)
NonBlankWords(words) ==
    IF words = <<>> THEN <<>>
    ELSE IF IsBlank(words[1]) THEN NonBlankWords(Tail(words))
    ELSE <<words[1]>> \o NonBlankWords(Tail(words))

\* Line 114: ' '.join(word for word in words if word.strip())
normalized_text(words) == Join(NonBlankWords(words))

\* str.lower() on one character.
lower(c) == IF c = "A" THEN "a" ELSE IF c = "B" THEN "b" ELSE c

Alnum == {"a", "b", "A", "B"}

\* clean_text: the alphanumeric and whitespace characters, lower-cased.
RECURSIVE clean_text(_)
clean_text(text) ==
    IF text = <<>> THEN <<>>
    ELSE IF text[1] \in Alnum \cup Whitespace
         THEN <<lower(text[1])>> \o clean_text(Tail(text))
         ELSE clean_text(Tail(text))

\* The index of the first snapshot of the batch whose outcome is of this
\* kind, or 0.
first_of_kind(results, kind) ==
    LET hits == {i \in DOMAIN results : results[i].kind = kind}
    IN  IF hits = {} THEN 0 ELSE CHOOSE i \in hits : \A j \in hits : i <= j

\* Lines 105-119: the number of snapshots of the batch handed to the engine.
\* An exception leaves the try block: one raised by preprocess_image in the
\* first loop before anything is recognised, one raised by pytesseract in the
\* second loop after the snapshots before it have been submitted.
emitted_count(results) ==
    IF first_of_kind(results, "preprocess_error") # 0 THEN 0
    ELSE IF first_of_kind(results, "ocr_error") # 0
         THEN first_of_kind(results, "ocr_error") - 1
         ELSE Len(results)

\* Lines 111-119 for the snapshots i..last of the batch.
RECURSIVE submit_images(_, _, _, _, _, _)
submit_images(e, screenshots, results, i, last, write_ok) ==
    IF i > last THEN e
    ELSE submit_images(
             process_ocr_text(e, clean_text(normalized_text(results[i].words)),
                              screenshots[i].timestamp,
                              ocr_metadata(screenshots[i].timestamp, screenshots[i].monitor),
                              write_ok),
             screenshots, results, i + 1, last, write_ok)

\* _record, lines 71-72 and 78-81: the loop test, and the start of a
\* capture_screenshots round.
RecordIteration ==
    /\ recorder_thread.pc = "loop"
    /\ "screen_recorder" \in running => captures < MaxCaptures
    /\ IF "screen_recorder" \in running
       THEN /\ recorder_thread' = [pc |-> "grab", monitor |-> 1,
                                   timestamp |-> Instants[now], shot |-> None]
            /\ captures' = captures + 1
       ELSE /\ recorder_thread' = [recorder_thread EXCEPT !.pc = "done"]
            /\ UNCHANGED captures
    /\ UNCHANGED <<vad_vars, listener_vars, engine_vars, text_vars, now, main_vars, active_window,
                   screenshot_queue, ocr_thread, ocr_log, last_batch, last_event>>

\* Lines 83-84: sct.grab(monitor) takes the picture of what is on the screen;
\* past the last monitor the round ends and _record sleeps (line 73).
CaptureGrab ==
    /\ recorder_thread.pc = "grab"
    /\ IF recorder_thread.monitor > Len(monitors)
       THEN /\ recorder_thread' = [recorder_thread EXCEPT !.pc = "loop"]
            /\ now' = IF now < Len(Instants) THEN now + 1 ELSE now
       ELSE /\ recorder_thread' =
                  [recorder_thread EXCEPT
                      !.pc = "check",
                      !.shot = <<[seq       |-> capture_index(captures, recorder_thread.monitor),
                                  timestamp |-> recorder_thread.timestamp,
                                  monitor   |-> recorder_thread.monitor,
                                  window    |-> active_window]>>]
            /\ UNCHANGED now
    /\ UNCHANGED <<vad_vars, listener_vars, engine_vars, text_vars, main_vars, active_window, screenshot_queue,
                   ocr_thread, captures, ocr_log, last_batch, last_event>>

\* Lines 86-93: the active window is read, and the snapshot is skipped or put
\* on the queue.
CapturePut ==
    /\ recorder_thread.pc = "check"
    /\ LET current_window == active_window
       IN  screenshot_queue' =
               IF is_excluded(current_window)
               THEN screenshot_queue
               ELSE Append(screenshot_queue, recorder_thread.shot[1])
    /\ recorder_thread' = [recorder_thread EXCEPT !.pc = "grab",
                                                  !.monitor = @ + 1,
                                                  !.shot = None]
    /\ UNCHANGED <<vad_vars, listener_vars, engine_vars, text_vars, now, main_vars, active_window,
                   ocr_thread, captures, ocr_log, last_batch, last_event>>

\* The user brings another window to the front.
SwitchWindow ==
    /\ recorder_thread.pc \in {"grab", "check"}
    /\ \E window \in ActiveWindows \ {active_window} : active_window' = window
    /\ UNCHANGED <<vad_vars, listener_vars, engine_vars, text_vars, now, main_vars, screenshot_queue,
                   recorder_thread, ocr_thread, captures, ocr_log, last_batch, last_event>>

\* process_screenshots, lines 97-99: the loop test and a fresh batch.
ProcessIteration ==
    /\ ocr_thread.pc = "loop"
    /\ ocr_thread' = IF "screen_recorder" \in running
                     THEN [pc |-> "gather", screenshots |-> <<>>]
                     ELSE [pc |-> "done", screenshots |-> <<>>]
    /\ UNCHANGED <<vad_vars, listener_vars, engine_vars, text_vars, now, main_vars, active_window,
                   screenshot_queue, recorder_thread, captures, ocr_log, last_batch,
                   last_event>>

\* Lines 100-102: one snapshot is taken off the queue.
ProcessGet ==
    /\ ocr_thread.pc = "gather"
    /\ screenshot_queue # <<>>
    /\ LET got   == queue_get(screenshot_queue)
           batch == Append(ocr_thread.screenshots, got.item)
       IN  /\ screenshot_queue' = got.rest
           /\ ocr_thread' = [pc          |-> IF Len(batch) < batch_size
                                             THEN "gather" ELSE "process",
                             screenshots |-> batch]
    /\ UNCHANGED <<vad_vars, listener_vars, engine_vars, text_vars, now, main_vars, active_window,
                   recorder_thread, captures, ocr_log, last_batch, last_event>>

\* Lines 101 and 121-122: the queue stays empty for a second, get raises Empty
\* and the loop starts over; the snapshots gathered so far are dropped.
ProcessEmpty ==
    /\ ocr_thread.pc = "gather"
    /\ screenshot_queue = <<>>
    /\ ocr_thread' = [pc |-> "loop", screenshots |-> <<>>]
    /\ UNCHANGED <<vad_vars, listener_vars, engine_vars, text_vars, now, main_vars, active_window,
                   screenshot_queue, recorder_thread, captures, ocr_log, last_batch,
                   last_event>>

\* Lines 104-125: the batch is preprocessed, recognised and submitted.
ProcessBatch ==
    /\ ocr_thread.pc = "process"
    /\ \E results \in [1..batch_size -> OcrOutcomes], write_ok \in BOOLEAN :
          LET shots == ocr_thread.screenshots
              n     == emitted_count(results)
          IN  /\ SetEngine(submit_images(engine_state, shots, results, 1, n, write_ok))
              /\ ocr_log' = ocr_log \o [i \in 1..n |-> [seq       |-> shots[i].seq,
                                                     timestamp |-> shots[i].timestamp,
                                                     monitor   |-> shots[i].monitor]]
              /\ last_batch' = [shots   |-> [i \in 1..Len(shots) |-> shots[i].seq],
                                results |-> [i \in 1..Len(shots) |-> results[i].kind],
                                emitted |-> n]
    /\ ocr_thread' = [pc |-> "loop", screenshots |-> <<>>]
    /\ UNCHANGED <<vad_vars, listener_vars, text_vars, now, main_vars, active_window, screenshot_queue,
                   recorder_thread, captures, last_event>>

\* ScreenRecorder.__init__ and start_recording have run: both threads are at
\* the top of their loops.
InitScreen ==
    /\ InitCapture
    /\ enabled = {"screen_recorder"}
    /\ services = {"screen_recorder"}
    /\ running = {"screen_recorder"}
    /\ signals = 0
    /\ main_pc = "loop"
    /\ signal_handler = "main"
    /\ input_frames = 0
    /\ stop_seq = 0
    /\ InitAudioOff
    /\ active_window = <<"editor">>
    /\ screenshot_queue = <<>>
    /\ recorder_thread = [pc |-> "loop", monitor |-> 0, timestamp |-> 0, shot |-> None]
    /\ ocr_thread = [pc |-> "loop", screenshots |-> <<>>]
    /\ captures = 0
    /\ ocr_log = <<>>
    /\ last_batch = [shots |-> <<>>, results |-> <<>>, emitted |-> 0]

NextScreen ==
    \/ RecordIteration \/ CaptureGrab \/ CapturePut \/ SwitchWindow
    \/ ProcessIteration \/ ProcessGet \/ ProcessEmpty \/ ProcessBatch
    \/ HandleSignal

SpecScreen == InitScreen /\ [][NextScreen]_vars

(***************************************************************************)
(* Properties of the engine (checked under SpecEngine; C4 under            *)
(* SpecEngineSignals).                                                     *)
(***************************************************************************)
Last(seq) == seq[Len(seq)]

current_entry == tokenization_utils.current_entry

\* The two most recent records r1, r2: no entry was open before r1, r2 carries
\* no context switch, and the tokens of both stay below the ceiling.
C1_Case ==
    /\ Len(calls) >= 2
    /\ ~calls[Len(calls) - 1].had_entry
    /\ ~calls[Len(calls)].context_switch
    /\ Len(word_tokenize(calls[Len(calls) - 1].text))
         + Len(word_tokenize(calls[Len(calls)].text)) < token_limit

\* C1 as stated: after two consecutive records r1, r2 (no entry open before r1,
\* no context switch on r2, below the ceiling) one entry is open and its text is
\* r1.text + " " + r2.text.
C1_RawConcatenation ==
    C1_Case =>
        /\ Len(current_entry) = 1
        /\ current_entry[1].text =
               calls[Len(calls) - 1].text \o <<" ">> \o calls[Len(calls)].text

\* C1 amended: in that case neither call flushes anything, one entry is open,
\* and its text is the whitespace-normalised r1.text, a space, and the
\* whitespace-normalised r2.text.
C1_NormalisedConcatenation ==
    C1_Case =>
        /\ Len(current_entry) = 1
        /\ calls[Len(calls) - 1].flushes = 0
        /\ calls[Len(calls)].flushes = 0
        /\ current_entry[1].text =
               Join(Split(calls[Len(calls) - 1].text)) \o <<" ">>
                   \o Join(Split(calls[Len(calls)].text))

\* Two non-blank records whose raw text is not normalised have been merged.
C1_Witness ==
    /\ C1_Case
    /\ ~IsBlank(calls[Len(calls) - 1].text)
    /\ ~IsBlank(calls[Len(calls)].text)
    /\ calls[Len(calls)].text # Join(Split(calls[Len(calls)].text))
    /\ Len(current_entry) = 1

\* The text the open entry holds once a record handed over in this step has
\* been merged in, before the ceiling is looked at.
C2_MergedText ==
    LET r == Last(calls')
    IN  IF current_entry = None \/ r.context_switch
        THEN Join(Split(r.text))
        ELSE current_entry[1].text \o <<" ">> \o Join(Split(r.text))

\* The entry a call leaves behind: the open one, or the one it just flushed.
C2_EntryOfCall ==
    IF tokenization_utils'.current_entry # None
    THEN tokenization_utils'.current_entry[1]
    ELSE Last(store_calls').entry

\* C2: a call that brings the open entry's token count to the ceiling (by
\* opening it or by appending to it) flushes that entry to store_entry and
\* clears the reference within the call; and the record that follows a flush at
\* the ceiling, whatever its flag, starts an entry with a new id and its own
\* text, while the flushed entry is not handed to store_entry again.
C2_FlushAtCeiling ==
    [][Len(calls') = Len(calls) + 1 =>
          \A merged \in {C2_MergedText}, own \in {Join(Split(Last(calls').text))} :
              /\ Len(Split(merged)) >= token_limit =>
                    /\ tokenization_utils'.current_entry = None
                    /\ Len(store_calls') > Len(store_calls)
                    /\ Last(store_calls').entry.text = merged
              /\ Len(Split(merged)) < token_limit =>
                    /\ Len(tokenization_utils'.current_entry) = 1
                    /\ tokenization_utils'.current_entry[1].text = merged
              /\ (current_entry = None /\ store_calls # <<>>) =>
                    /\ C2_EntryOfCall.text = own
                    /\ \A i \in 1..Len(store_calls) :
                          /\ store_calls'[i] = store_calls[i]
                          /\ store_calls[i].entry.id # C2_EntryOfCall.id
                    /\ Len(store_calls') <= Len(store_calls) + 1
      ]_vars

\* An entry was flushed at the ceiling after an append, and the next record has
\* opened another entry.
C2_Witness ==
    /\ Len(calls) >= 3
    /\ calls[Len(calls) - 1].had_entry
    /\ ~calls[Len(calls) - 1].context_switch
    /\ calls[Len(calls) - 1].flushes = 1
    /\ ~calls[Len(calls)].had_entry
    /\ Len(current_entry) = 1

\* C3: no entry whose text is empty or whitespace-only is written by store_entry.
C3_NoBlankEntryWritten ==
    \A i \in 1..Len(store_calls) :
        store_calls[i].written => ~IsBlank(store_calls[i].entry.text)

\* C4: no entry id is handed to store_entry twice, whatever the order of
\* submissions and signals.
C4_StoredAtMostOnce ==
    \A i, j \in 1..Len(store_calls) :
        i # j => store_calls[i].entry.id # store_calls[j].entry.id

\* Entries were flushed both before and after two signals were handled.
C4_Witness ==
    /\ signals >= 2
    /\ Len(store_calls) >= 2
    /\ last_event.op # "handle_signal"
    /\ Last(calls).flushes >= 1

\* C5: a file written for one entry is never changed by a later store_entry:
\* every entry that was written is still the content of its file.
C5_WrittenFileKept ==
    \A i \in 1..Len(store_calls) :
        store_calls[i].written =>
            /\ entry_filename(store_calls[i].entry) \in DOMAIN files
            /\ files[entry_filename(store_calls[i].entry)]
                   = entry_document(store_calls[i].entry)

(***************************************************************************)
(* Properties of the Text pipeline (checked under Spec and FairSpec).      *)
(***************************************************************************)
\* C6: once handle_signal has run, no entry is left open in the engine.
C6_OpenEntryFlushedAtShutdown ==
    signals > 0 => current_entry = None

\* C7: a press of Enter or of a modifier key calls save_current_phrase with
\* context_switch = true and leaves current_phrase empty.
C7_EnterAndModifiersFlush ==
    (last_event.op = "on_key_press" /\ last_event.key \in ModifierKeys \cup {"enter"}) =>
        /\ \E i \in 1..Len(last_event.saves) : last_event.saves[i]
        /\ current_phrase = <<>>

\* The character a typing key stands for.
TypedChar(key) ==
    IF key = "space" THEN " " ELSE IF key = "tab" THEN "\t" ELSE key

TypingKeys == CharKeys \cup {"space", "tab"}

\* No flush is due at this key press: it falls in the minute of the previous
\* key press and less than inactivity_threshold after the last character key.
NoFlushDue ==
    /\ current_minute = None \/ current_minute = <<minute_of(Instants[now])>>
    /\ Instants[now] - last_activity_time < inactivity_threshold

\* C8: a character, space or tab key press at which no flush is due appends
\* its character to current_phrase and emits no TextRecord; and whenever such a
\* key press emits nothing, the buffer is the old buffer followed by that
\* character.
C8_TypingAccumulates ==
    [][(last_event'.op = "on_key_press" /\ last_event'.key \in TypingKeys) =>
          /\ NoFlushDue =>
                /\ calls' = calls
                /\ tokenization_utils' = tokenization_utils
                /\ current_phrase' = Append(current_phrase, TypedChar(last_event'.key))
          /\ calls' = calls =>
                current_phrase' = Append(current_phrase, TypedChar(last_event'.key))
      ]_vars

\* A letter then a space have been typed and nothing has been emitted.
C8_Witness ==
    /\ current_phrase = <<"a", " ">>
    /\ calls = <<>>
    /\ last_event.op = "on_key_press"
    /\ last_event.key = "space"

\* What backspace, space and tab do to a buffer.
C9_Effect(key, phrase) ==
    IF key = "backspace"
    THEN IF phrase = <<>> THEN <<>> ELSE SubSeq(phrase, 1, Len(phrase) - 1)
    ELSE Append(phrase, TypedChar(key))

\* C9 as stated: in on_key_press backspace removes exactly the last character
\* (an empty buffer stays empty), space and tab append one whitespace
\* character, and the rest of the buffer is unchanged.
C9_EditKeys ==
    [][(last_event'.op = "on_key_press"
            /\ last_event'.key \in {"backspace", "space", "tab"}) =>
          current_phrase' = C9_Effect(last_event'.key, current_phrase)
      ]_vars

\* C9 amended: the same, for a key press that emits no TextRecord.
C9_EditKeysWithoutEmission ==
    [][(last_event'.op = "on_key_press"
            /\ last_event'.key \in {"backspace", "space", "tab"}
            /\ calls' = calls) =>
          current_phrase' = C9_Effect(last_event'.key, current_phrase)
      ]_vars

\* Backspace has just shortened a two-character buffer to "a".
C9_Witness ==
    /\ last_event.op = "on_key_press"
    /\ last_event.key = "backspace"
    /\ current_phrase = <<"a">>
    /\ calls = <<>>

\* The buffer is non-blank, the listeners run, and the last keystroke is at
\* least inactivity_threshold old.
C10_Idle ==
    /\ "text_capture" \in running
    /\ ~IsBlank(current_phrase)
    /\ Instants[now] - last_activity_time >= inactivity_threshold

\* C10: an idle non-blank buffer does not stay idle: with the listeners running
\* it is eventually emitted and cleared even if no further key is pressed (a
\* further character key ends the idleness too).
C10_InactivityEmits == C10_Idle ~> ~C10_Idle

\* C19: a failed write in store_entry is caught: the call that caused it
\* completes, the open-entry reference ends up exactly as after a successful
\* write, and the entry that could not be written is never handed to
\* store_entry again, is in no file and is no longer the open entry.
C19_FailedWriteIsDropped ==
    /\ \A text \in Texts, timestamp \in Timestamps, context_switch \in BOOLEAN :
          LET failed  == tokenize_and_store_text(engine_state, text, timestamp, "OCR",
                             ocr_metadata(timestamp, 1), context_switch, FALSE)
              written == tokenize_and_store_text(engine_state, text, timestamp, "OCR",
                             ocr_metadata(timestamp, 1), context_switch, TRUE)
          IN  /\ failed.tu = written.tu
              /\ failed.calls = written.calls
              /\ failed.files = files
    /\ \A i \in 1..Len(store_calls) :
          ~store_calls[i].written =>
              /\ \A j \in 1..Len(store_calls) :
                    j # i => store_calls[j].entry.id # store_calls[i].entry.id
              /\ \A name \in DOMAIN files : files[name].id # store_calls[i].entry.id
              /\ \A k \in 1..Len(tokenization_utils.current_entry) :
                    tokenization_utils.current_entry[k].id # store_calls[i].entry.id

\* A write has failed, and the next entry has been opened, flushed and written.
C19_Witness ==
    /\ Len(store_calls) = 2
    /\ ~store_calls[1].written
    /\ store_calls[2].written
    /\ Len(calls) = 3

\* A call has left the entry that was open before it open.
C21_StaysOpen ==
    /\ Len(calls') = Len(calls) + 1
    /\ current_entry # None
    /\ current_entry' # None
    /\ current_entry'[1].id = current_entry[1].id

\* C21 as stated: while an entry stays open, a call leaves its text equal to
\* the previous text, a space and the new record's text.
C21_GrowsByRecordText ==
    [][ C21_StaysOpen =>
          current_entry'[1].text
              = current_entry[1].text \o <<" ">> \o Last(calls').text ]_vars

\* C21 amended: while an entry stays open, a call leaves its text equal to the
\* previous text, a space and the whitespace-normalised text of the new
\* record; the previous text is a prefix of the new text.
C21_GrowsByNormalisedText ==
    [][ C21_StaysOpen =>
          \A old \in {current_entry[1].text}, new \in {current_entry'[1].text},
             clean \in {preprocess_text(Last(calls').text)} :
              /\ new = old \o <<" ">> \o clean
              /\ Len(old) < Len(new)
              /\ SubSeq(new, 1, Len(old)) = old ]_vars

\* One entry has been open since the first record and has grown twice.
C21_Witness ==
    /\ Len(calls) = 3
    /\ \A i \in 2..3 : calls[i].had_entry /\ ~calls[i].context_switch
    /\ \A i \in 1..3 : calls[i].flushes = 0
    /\ Len(current_entry) = 1
    /\ current_entry[1].id = 1

\* C27: whenever tokenize_and_store_text has returned, the engine has no open
\* entry or an open entry whose token count is strictly below token_limit.
C27_OpenEntryBelowCeiling ==
    \A i \in 1..Len(current_entry) :
        Len(word_tokenize(current_entry[i].text)) < token_limit

\* An append has brought the open entry to one token below the ceiling.
C27_Witness ==
    /\ Len(current_entry) = 1
    /\ Len(word_tokenize(current_entry[1].text)) = token_limit - 1
    /\ Last(calls).had_entry
    /\ ~Last(calls).context_switch

\* C28: a call that appends to the open entry (an entry is open and
\* context_switch is false) leaves the entry's id, timestamp, source and
\* metadata as they were, whether the entry stays open or is flushed by it.
C28_AppendKeepsOpeningRecord ==
    [][ (/\ Len(calls') = Len(calls) + 1
         /\ current_entry # None
         /\ ~Last(calls').context_switch) =>
          \A before \in {current_entry[1]},
             after \in {IF current_entry' # None
                        THEN current_entry'[1] ELSE Last(store_calls').entry} :
              /\ after.id = before.id
              /\ after.timestamp = before.timestamp
              /\ after.source = before.source
              /\ after.metadata = before.metadata ]_vars

\* An OCR record has been appended to the entry a Text Capture record opened.
C28_Witness ==
    /\ last_event.op = "process_ocr_text"
    /\ Last(calls).had_entry
    /\ Len(current_entry) = 1
    /\ current_entry[1].source = "Text Capture"
    /\ current_entry[1].timestamp = 1
    /\ Len(calls) = 2

(***************************************************************************)
(* Properties of the mouse handler and of save_current_phrase (checked     *)
(* under Spec).                                                            *)
(***************************************************************************)
\* C11: in on_mouse_click, a press at least click_threshold after the recorded
\* click emits the buffer as a context-switch TextRecord (nothing when the
\* buffer is blank) and becomes the recorded click; a press within the
\* threshold and every release emit nothing and leave last_click_time and the
\* buffer unchanged.
C11_MouseClick ==
    [][ last_event'.op = "on_mouse_click" =>
          IF last_event'.key = "press"
             /\ Instants[now] - last_click_time >= click_threshold
          THEN /\ last_click_time' = Instants[now]
               /\ IF IsBlank(current_phrase)
                  THEN calls' = calls /\ current_phrase' = current_phrase
                  ELSE /\ Len(calls') = Len(calls) + 1
                       /\ Last(calls').text = current_phrase
                       /\ Last(calls').context_switch
                       /\ current_phrase' = <<>>
          ELSE /\ calls' = calls
               /\ last_click_time' = last_click_time
               /\ current_phrase' = current_phrase ]_vars

\* A press exactly click_threshold after the recorded click has emitted the buffer.
C11_Witness ==
    /\ last_event.op = "on_mouse_click"
    /\ last_event.key = "press"
    /\ last_event.saves = <<TRUE>>
    /\ Len(calls) = 2
    /\ Last(calls).context_switch
    /\ current_phrase = <<>>
    /\ last_click_time = Instants[2]

\* C12: save_current_phrase never submits a TextRecord whose text is blank:
\* every record the handlers submit has non-blank text, a handler that runs
\* on a blank buffer submits nothing, and a handler that submits nothing
\* leaves the engine (its open entry, its files, its stores) as it was.
C12_BlankBufferIsNoOp ==
    [][ /\ \A i \in (Len(calls) + 1)..Len(calls') : ~IsBlank(calls'[i].text)
        /\ (last_event'.op \in {"on_mouse_click", "on_key_press"}
            /\ IsBlank(current_phrase)) => calls' = calls
        /\ calls' = calls => UNCHANGED <<tokenization_utils, files, store_calls>> ]_vars

\* A click has called save_current_phrase on a whitespace-only buffer while an
\* entry is open.
C12_Witness ==
    /\ last_event.op = "on_mouse_click"
    /\ last_event.saves = <<TRUE>>
    /\ current_phrase = <<" ">>
    /\ Len(calls) = 1
    /\ tokenization_utils.current_entry # None

(***************************************************************************)
(* Properties of the Screen pipeline (checked under SpecScreen).           *)
(***************************************************************************)
\* The entries the engine has opened so far: the stored ones and the open one.
EntriesOpened ==
    {store_calls[i].entry : i \in 1..Len(store_calls)}
        \cup {tokenization_utils.current_entry[i] :
                  i \in 1..Len(tokenization_utils.current_entry)}

\* The call that opened the entry with this id: ids are handed out in order.
OpeningCall(id) ==
    CHOOSE j \in 1..Len(calls) :
        /\ ~calls[j].had_entry
        /\ Cardinality({m \in 1..j : ~calls[m].had_entry}) = id

\* The positions of the last batch whose snapshot can be preprocessed and recognised.
RecognisedInLastBatch ==
    {i \in 1..Len(last_batch.results) : last_batch.results[i] = "ok"}

\* C13: for a batch processed by process_screenshots, one TextRecord is
\* emitted per snapshot, fewer only by the snapshots whose recognition failed,
\* and each is submitted with source "OCR" and the timestamp and monitor of
\* its own snapshot as metadata.
C13_OneRecordPerSnapshot ==
    /\ last_batch.emitted = Cardinality(RecognisedInLastBatch)
    /\ Len(calls) = Len(ocr_log)
    /\ \A entry \in EntriesOpened :
          LET shot == ocr_log[OpeningCall(entry.id)]
          IN  /\ entry.source = "OCR"
              /\ entry.timestamp = shot.timestamp
              /\ entry.metadata = [timestamp |-> shot.timestamp, monitor |-> shot.monitor]

\* C16: a failure on one snapshot of a batch concerns that snapshot only:
\* every other snapshot of the batch is emitted, and the failed snapshot is
\* neither emitted nor put back on the queue.
C16_FailureIsPerSnapshot ==
    \A i \in 1..Len(last_batch.shots) :
        LET emitted  == \E j \in 1..Len(ocr_log) : ocr_log[j].seq = last_batch.shots[i]
            requeued == \E j \in 1..Len(screenshot_queue) :
                            screenshot_queue[j].seq = last_batch.shots[i]
        IN  IF i \in RecognisedInLastBatch THEN emitted ELSE ~emitted /\ ~requeued

\* C17: the TextRecords process_screenshots submits are in the order in which
\* their snapshots were captured, and the queue holds snapshots in that order.
C17_CaptureOrderKept ==
    /\ \A i, j \in 1..Len(ocr_log) : i < j => ocr_log[i].seq < ocr_log[j].seq
    /\ \A i, j \in 1..Len(screenshot_queue) :
          i < j => screenshot_queue[i].seq < screenshot_queue[j].seq

\* Two batches have been submitted in full.
C17_Witness ==
    /\ Len(ocr_log) = 2 * batch_size
    /\ ocr_log[1].seq = 1
    /\ ocr_log[Len(ocr_log)].seq = Len(ocr_log)

\* C18: no snapshot taken while the active window is excluded or private is
\* ever on screenshot_queue or in a batch taken from it.
C18_NoExcludedSnapshotQueued ==
    /\ \A i \in 1..Len(screenshot_queue) : ~is_excluded(screenshot_queue[i].window)
    /\ \A i \in 1..Len(ocr_thread.screenshots) :
          ~is_excluded(ocr_thread.screenshots[i].window)

\* C20: once the running flag is false the batch loop exits only when the
\* snapshots that were queued at that moment have been taken off the queue,
\* apart from fewer than one batch of them.
C20_ExitsOnceDrained ==
    [][ (ocr_thread.pc = "loop" /\ ocr_thread'.pc = "done") =>
          Cardinality({i \in 1..Len(screenshot_queue) :
                           screenshot_queue[i].seq <= stop_seq}) < batch_size ]_vars

(***************************************************************************)
(* Properties of start-up and shutdown (checked under FairSpecMain).       *)
(***************************************************************************)
\* C14: once SIGINT or SIGTERM has been delivered, every running source is
\* stopped: no capture loop, batch loop or listener keeps running.
C14_SignalStopsEverySource == (signals > 0) ~> (running = {})

\* C15: starting a source does not block: with all three sources enabled (and
\* no signal arriving) the main routine gets past AudioRecorder.start_recording,
\* starts Screen and Text and installs the signal handlers.
C15_StartupCompletes ==
    (enabled = AllServices /\ main_pc = "audio")
        ~> (signals > 0 \/ (main_pc = "loop" /\ running = AllServices
                            /\ signal_handler = "main"))

\* C29: a key press in another wall-clock minute than the previous key press
\* emits the non-blank buffer, as it was before the key, with context_switch
\* false, so that an open entry is extended and no new one opened; a key
\* press in the same minute (or the first one) emits nothing without
\* context_switch.
C29_MinuteRollover ==
    [][ last_event'.op = "on_key_press" =>
          IF /\ current_minute # None
             /\ current_minute[1] # minute_of(Instants[now])
             /\ ~IsBlank(current_phrase)
          THEN /\ Len(calls') > Len(calls)
               /\ calls'[Len(calls) + 1].text = current_phrase
               /\ ~calls'[Len(calls) + 1].context_switch
               /\ \A i \in (Len(calls) + 2)..Len(calls') : calls'[i].context_switch
               /\ (current_entry # None /\ Len(calls') = Len(calls) + 1) =>
                     /\ calls'[Len(calls) + 1].had_entry
                     /\ tokenization_utils'.next_id = tokenization_utils.next_id
          ELSE \A i \in (Len(calls) + 1)..Len(calls') : calls'[i].context_switch ]_vars

\* A key press in the next minute has appended the buffer to the open entry.
C29_Witness ==
    /\ last_event.op = "on_key_press"
    /\ last_event.saves # <<>>
    /\ ~last_event.saves[1]
    /\ Len(calls) = 2
    /\ calls[2].had_entry
    /\ ~calls[2].context_switch
    /\ current_minute = <<minute_of(Instants[2])>>

\* C22: a snapshot whose recognised and cleaned text is blank is dropped:
\* process_screenshots submits no TextRecord for it, and no entry is opened
\* with blank text.
C22_BlankRecognitionDropped ==
    /\ \A i \in 1..Len(calls) : ~IsBlank(calls[i].text)
    /\ \A entry \in EntriesOpened : ~IsBlank(entry.text)

\* C25: while the Screen source keeps running, the snapshots taken off the
\* queue stay in the batch being filled until the batch is processed: a get
\* that times out drops none of them.
C25_DequeuedSnapshotsKept ==
    [][ ("screen_recorder" \in running /\ ocr_thread.pc = "gather") =>
          /\ Len(ocr_thread'.screenshots) >= Len(ocr_thread.screenshots)
          /\ SubSeq(ocr_thread'.screenshots, 1, Len(ocr_thread.screenshots))
                 = ocr_thread.screenshots ]_vars

(***************************************************************************)
(* Properties of AudioRecorder._apply_vad (checked under SpecVad).         *)
(***************************************************************************)
\* The samples the detector is to keep, from sample i on: a sample above the
\* threshold, or one of the first silence_frames samples of a silent run.
RECURSIVE C24_Kept(_, _, _, _)
C24_Kept(samples, peak, i, silent_count) ==
    IF i > Len(samples) THEN <<>>
    ELSE IF above_threshold(samples[i], peak)
         THEN <<samples[i]>> \o C24_Kept(samples, peak, i + 1, 0)
         ELSE IF silent_count + 1 <= silence_frames
              THEN <<samples[i]>> \o C24_Kept(samples, peak, i + 1, silent_count + 1)
              ELSE C24_Kept(samples, peak, i + 1, silent_count + 1)

\* C24: _apply_vad returns, in their original order, exactly the samples that
\* are above the threshold or within the grace window; the samples of a
\* longer silent run are absent.
C24_VadKeepsVoicedSamples ==
    vad_frames # None => vad_frames[1] = C24_Kept(audio, audio_max(audio), 1, 0)

(***************************************************************************)
(* Properties of the listener threads (checked under SpecListeners).       *)
(***************************************************************************)
\* The thread is inside tokenize_and_store_text.
InEngine(th) == listeners[th].pc \in {"engine_new", "engine_limit"}

\* C23: the keyboard callback and the mouse callback never execute
\* tokenize_and_store_text on the engine at the same time.
C23_SubmissionsSerialized ==
    ~(InEngine("keyboard") /\ InEngine("mouse"))

\* The letters in the texts of the records handed to the engine from call i on.
RECURSIVE LettersDelivered(_)
LettersDelivered(i) ==
    IF i > Len(calls) THEN 0
    ELSE letters_in(calls[i].text) + LettersDelivered(i + 1)

\* C26: once both callbacks have returned, every letter typed and not removed
\* by backspace is in exactly one record handed to the engine, or still in the
\* buffer: none was lost when the buffer was cleared, none was submitted twice.
C26_TypedLettersDeliveredOnce ==
    (\A th \in ListenerThreads : listeners[th].pc = "idle")
        => typed = letters_in(current_phrase) + LettersDelivered(1)

====
